---- MODULE Spec2Model ----
(***************************************************************************)
(* Model of model_modules.py: the pix2pix building blocks (EncoderBlock,   *)
(* DecoderBlock), the U-Net Generator and the two patch discriminators.    *)
(*                                                                         *)
(* A tensor is a heap cell [shape, val, by, args]: its shape (N, C, H, W), *)
(* its contents as a term over the operations that produced them (a        *)
(* sequence of tokens in postfix order), the sublayer that produced it and *)
(* the heap cells that were its operands.  Python names are references to  *)
(* heap cells, so an in-place operation changes what every holder of the   *)
(* reference sees.                                                         *)
(***************************************************************************)
EXTENDS Integers, Sequences, FiniteSets, TLC

VARIABLES ctor, status, blocks, training, rng, heap, locals, entry, results

vars == <<ctor, status, blocks, training, rng, heap, locals, entry, results>>

(***************************************************************************)
(* Bounds of the exploration.                                              *)
(***************************************************************************)
MaxN == 2
MaxMult == 2
MaxOff == 2
MaxSmall == 4
MaxCalls == 2

(***************************************************************************)
(* Defaults of the constructors.                                           *)
(***************************************************************************)
kernel_size == 4
stride_default == 2
padding == 1
dilation == 1
NumEncoders == 8

Base == 2 ^ NumEncoders

Norms == {"batch", "instance", "unsupported"}
Strides == {1, 2}
DropoutProbs == {0, 50}
InChannels == {3}
OutChannels == {1}
BlockKinds == {"EncoderBlock", "DecoderBlock"}
DiscKinds == {"Discriminator", "Discriminator286"}

SmallDims == 1 .. MaxSmall
BigDims == {Base * m : m \in 1 .. MaxMult} \cup {Base + d : d \in 0 .. MaxOff}

InputDims(kind) == IF kind \in BlockKinds THEN SmallDims ELSE BigDims
InputSigns(kind) == IF kind = "EncoderBlock" THEN {"x", "x_nonneg"} ELSE {"x"}
NArgs(kind) == IF kind \in DiscKinds THEN 2 ELSE 1

NoBlocks == [n \in {} |-> 0]

(***************************************************************************)
(* Tensors and element-wise functions.                                     *)
(***************************************************************************)
Tensor(shape, val, by, args) ==
    [shape |-> shape, val |-> val, by |-> by, args |-> args]

NoTensor == Tensor(<<0, 0, 0, 0>>, <<>>, "error", <<>>)

NonNeg(val) == val[Len(val)] \in {"x_nonneg", "ReLU", "Sigmoid"}

\* nn.LeakyReLU(0.2): elements >= 0 are kept, negative ones are scaled.
LeakyReLU(val) == IF NonNeg(val) THEN val ELSE Append(val, "LeakyReLU")

\* nn.ReLU()
ReLU(val) == IF NonNeg(val) THEN val ELSE Append(val, "ReLU")

\* ConvOut with the padding counted on one side only.
ConvOut_onePad(h, k, s, p, d) ==
    IF h + p < d * (k - 1) + 1 THEN 0
    ELSE ((h + p - d * (k - 1) - 1) \div s) + 1

\* nn.Conv2d output size along one axis; 0 when the kernel does not fit.
ConvOut(h, k, s, p, d) ==
    IF h + 2 * p < d * (k - 1) + 1 THEN 0
    ELSE ((h + 2 * p - d * (k - 1) - 1) \div s) + 1

\* nn.ConvTranspose2d output size along one axis.
ConvTOut(h, k, s, p) == (h - 1) * s - 2 * p + (k - 1) + 1

(***************************************************************************)
(* Constructors of the two blocks.                                         *)
(***************************************************************************)
Block(cls, cin, cout, stride, do_norm, norm, do_activation, dropout_prob) ==
    [cls |-> cls, in_channels |-> cin, out_channels |-> cout,
     kernel_size |-> kernel_size, stride |-> stride, padding |-> padding,
     dilation |-> dilation, do_norm |-> do_norm, norm |-> norm,
     do_activation |-> do_activation, dropout_prob |-> dropout_prob,
     num_batches_tracked |-> 0]

\* EncoderBlock_init falling back to batch normalization on an unknown mode.
EncoderBlock_init_fallback(cin, cout, stride, do_norm, norm, do_activation) ==
    [ok |-> TRUE,
     block |-> Block("EncoderBlock", cin, cout, stride, do_norm,
                     IF ~do_norm THEN "none"
                     ELSE IF norm = "instance" THEN "instance" ELSE "batch",
                     do_activation, 0)]

EncoderBlock_init(cin, cout, stride, do_norm, norm, do_activation) ==
    IF do_norm /\ norm \notin {"batch", "instance"}
    THEN [ok |-> FALSE,
          block |-> Block("EncoderBlock", cin, cout, stride, do_norm, "none", do_activation, 0)]
    ELSE [ok |-> TRUE,
          block |-> Block("EncoderBlock", cin, cout, stride, do_norm,
                          IF do_norm THEN norm ELSE "none", do_activation, 0)]

DecoderBlock_init(cin, cout, stride, do_norm, norm, do_activation, dropout_prob) ==
    IF do_norm /\ norm \notin {"batch", "instance"}
    THEN [ok |-> FALSE,
          block |-> Block("DecoderBlock", cin, cout, stride, do_norm, "none", do_activation, dropout_prob)]
    ELSE [ok |-> TRUE,
          block |-> Block("DecoderBlock", cin, cout, stride, do_norm,
                          IF do_norm THEN norm ELSE "none", do_activation, dropout_prob)]

(***************************************************************************)
(* Forward of the two blocks.                                              *)
(***************************************************************************)
\* self.norm(x): BatchNorm2d / InstanceNorm2d with their default arguments.
Norm_forward(b, name, shape, val, train) ==
    IF ~b.do_norm THEN [ok |-> TRUE, val |-> val, block |-> b]
    ELSE IF b.norm = "batch" THEN
        IF train THEN
            IF shape[1] * shape[3] * shape[4] = 1
            THEN [ok |-> FALSE, val |-> val, block |-> b]
            ELSE [ok |-> TRUE,
                  val |-> val \o <<"BatchNorm2d", name, "batch_stats">>,
                  block |-> [b EXCEPT !.num_batches_tracked = @ + 1]]
        ELSE [ok |-> TRUE,
              val |-> val \o <<"BatchNorm2d", name, "running_stats",
                               ToString(b.num_batches_tracked)>>,
              block |-> b]
    ELSE
        IF shape[3] * shape[4] = 1
        THEN [ok |-> FALSE, val |-> val, block |-> b]
        ELSE [ok |-> TRUE, val |-> val \o <<"InstanceNorm2d", name>>, block |-> b]

\* EncoderBlock.forward on the tensor at heap cell x.
EncoderBlock_forward(hp, b, name, x, train) ==
    LET h1 == IF b.do_activation
              THEN [hp EXCEPT ![x].val = LeakyReLU(@)]
              ELSE hp
        s == h1[x].shape
        oh == ConvOut(s[3], b.kernel_size, b.stride, b.padding, b.dilation)
        ow == ConvOut(s[4], b.kernel_size, b.stride, b.padding, b.dilation)
        convOk == s[2] = b.in_channels /\ oh > 0 /\ ow > 0
        shape2 == <<s[1], b.out_channels, oh, ow>>
        n == Norm_forward(b, name, shape2, h1[x].val \o <<"Conv2d", name>>, train)
    IN  IF convOk /\ n.ok
        THEN [ok |-> TRUE,
              heap |-> Append(h1, Tensor(shape2, n.val, name, <<x>>)),
              block |-> n.block]
        ELSE [ok |-> FALSE, heap |-> h1, block |-> b]

\* DecoderBlock.forward on the tensor at heap cell x; draw numbers the random
\* channel mask Dropout2d takes from the generator when it is active.
DecoderBlock_forward(hp, b, name, x, train, draw) ==
    LET s == hp[x].shape
        v1 == IF b.do_activation THEN ReLU(hp[x].val) ELSE hp[x].val
        oh == ConvTOut(s[3], b.kernel_size, b.stride, b.padding)
        ow == ConvTOut(s[4], b.kernel_size, b.stride, b.padding)
        convOk == s[2] = b.in_channels /\ oh > 0 /\ ow > 0
        shape2 == <<s[1], b.out_channels, oh, ow>>
        n == Norm_forward(b, name, shape2, v1 \o <<"ConvTranspose2d", name>>, train)
        drops == b.dropout_prob # 0 /\ train
        v3 == IF drops THEN n.val \o <<"Dropout2d", ToString(draw)>> ELSE n.val
    IN  IF convOk /\ n.ok
        THEN [ok |-> TRUE,
              heap |-> Append(hp, Tensor(shape2, v3, name, <<x>>)),
              block |-> n.block,
              draws |-> IF drops THEN draw ELSE draw - 1]
        ELSE [ok |-> FALSE, heap |-> hp, block |-> b, draws |-> draw - 1]

\* Cat with the operands joined in the opposite order.
Cat_swapped(hp, a, b) ==
    LET sa == hp[a].shape
        sb == hp[b].shape
    IN  IF sa[1] = sb[1] /\ sa[3] = sb[3] /\ sa[4] = sb[4]
        THEN [ok |-> TRUE,
              heap |-> Append(hp, Tensor(<<sa[1], sa[2] + sb[2], sa[3], sa[4]>>,
                                         hp[b].val \o hp[a].val \o <<"cat">>,
                                         "cat", <<b, a>>))]
        ELSE [ok |-> FALSE, heap |-> hp]

\* torch.cat([a, b], 1)
Cat(hp, a, b) ==
    LET sa == hp[a].shape
        sb == hp[b].shape
    IN  IF sa[1] = sb[1] /\ sa[3] = sb[3] /\ sa[4] = sb[4]
        THEN [ok |-> TRUE,
              heap |-> Append(hp, Tensor(<<sa[1], sa[2] + sb[2], sa[3], sa[4]>>,
                                         hp[a].val \o hp[b].val \o <<"cat">>,
                                         "cat", <<a, b>>))]
        ELSE [ok |-> FALSE, heap |-> hp]

\* nn.Tanh()(t), nn.Sigmoid()(t)
Pointwise(hp, fn, t) ==
    Append(hp, Tensor(hp[t].shape, Append(hp[t].val, fn), fn, <<t>>))

(***************************************************************************)
(* Constructors of the composite networks: the sublayers in the order the  *)
(* constructor creates them.                                               *)
(***************************************************************************)
Enc(name, cin, cout, stride, do_norm, norm, do_activation) ==
    [name |-> name, r |-> EncoderBlock_init(cin, cout, stride, do_norm, norm, do_activation)]

Dec(name, cin, cout, do_norm, norm, dropout_prob) ==
    [name |-> name,
     r |-> DecoderBlock_init(cin, cout, stride_default, do_norm, norm, TRUE, dropout_prob)]

Assemble(layers) ==
    IF \A i \in DOMAIN layers : layers[i].r.ok
    THEN [ok |-> TRUE,
          blocks |-> [n \in {layers[i].name : i \in DOMAIN layers} |->
                        layers[CHOOSE i \in DOMAIN layers : layers[i].name = n].r.block]]
    ELSE [ok |-> FALSE, blocks |-> NoBlocks]

\* Generator_init with decoder6 sized for the decoder5 output alone.
Generator_init_noSkip6(cin, cout, dropout_prob, norm) ==
    Assemble(<<
        Enc("encoder1", cin, 64, 2, FALSE, "batch", FALSE),
        Enc("encoder2", 64, 128, 2, TRUE, norm, TRUE),
        Enc("encoder3", 128, 256, 2, TRUE, norm, TRUE),
        Enc("encoder4", 256, 512, 2, TRUE, norm, TRUE),
        Enc("encoder5", 512, 512, 2, TRUE, norm, TRUE),
        Enc("encoder6", 512, 512, 2, TRUE, norm, TRUE),
        Enc("encoder7", 512, 512, 2, TRUE, norm, TRUE),
        Enc("encoder8", 512, 512, 2, FALSE, "batch", TRUE),
        Dec("decoder1", 512, 512, TRUE, norm, 0),
        Dec("decoder2", 1024, 512, TRUE, norm, dropout_prob),
        Dec("decoder3", 1024, 512, TRUE, norm, dropout_prob),
        Dec("decoder4", 1024, 512, TRUE, norm, dropout_prob),
        Dec("decoder5", 1024, 256, TRUE, norm, 0),
        Dec("decoder6", 256, 128, TRUE, norm, 0),
        Dec("decoder7", 256, 64, TRUE, norm, 0),
        Dec("decoder8", 128, cout, FALSE, "batch", 0) >>)

Generator_init(cin, cout, dropout_prob, norm) ==
    Assemble(<<
        Enc("encoder1", cin, 64, 2, FALSE, "batch", FALSE),
        Enc("encoder2", 64, 128, 2, TRUE, norm, TRUE),
        Enc("encoder3", 128, 256, 2, TRUE, norm, TRUE),
        Enc("encoder4", 256, 512, 2, TRUE, norm, TRUE),
        Enc("encoder5", 512, 512, 2, TRUE, norm, TRUE),
        Enc("encoder6", 512, 512, 2, TRUE, norm, TRUE),
        Enc("encoder7", 512, 512, 2, TRUE, norm, TRUE),
        Enc("encoder8", 512, 512, 2, FALSE, "batch", TRUE),
        Dec("decoder1", 512, 512, TRUE, norm, 0),
        Dec("decoder2", 1024, 512, TRUE, norm, dropout_prob),
        Dec("decoder3", 1024, 512, TRUE, norm, dropout_prob),
        Dec("decoder4", 1024, 512, TRUE, norm, dropout_prob),
        Dec("decoder5", 1024, 256, TRUE, norm, 0),
        Dec("decoder6", 512, 128, TRUE, norm, 0),
        Dec("decoder7", 256, 64, TRUE, norm, 0),
        Dec("decoder8", 128, cout, FALSE, "batch", 0) >>)

\* Discriminator_init with disc4 at stride 2.
Discriminator_init_strided4(cin, cout, norm) ==
    Assemble(<<
        Enc("disc1", cin * 2, 64, 2, FALSE, "batch", FALSE),
        Enc("disc2", 64, 128, 2, TRUE, norm, TRUE),
        Enc("disc3", 128, 256, 2, TRUE, norm, TRUE),
        Enc("disc4", 256, 512, 2, TRUE, norm, TRUE),
        Enc("disc5", 512, cout, 1, FALSE, "batch", TRUE) >>)

Discriminator_init(cin, cout, norm) ==
    Assemble(<<
        Enc("disc1", cin * 2, 64, 2, FALSE, "batch", FALSE),
        Enc("disc2", 64, 128, 2, TRUE, norm, TRUE),
        Enc("disc3", 128, 256, 2, TRUE, norm, TRUE),
        Enc("disc4", 256, 512, 1, TRUE, norm, TRUE),
        Enc("disc5", 512, cout, 1, FALSE, "batch", TRUE) >>)

\* Discriminator286_init with the final three layers at stride 1.
Discriminator286_init_threeFlat(cin, cout, norm) ==
    Assemble(<<
        Enc("disc1", cin * 2, 64, 2, FALSE, "batch", FALSE),
        Enc("disc2", 64, 128, 2, TRUE, norm, TRUE),
        Enc("disc3", 128, 256, 2, TRUE, norm, TRUE),
        Enc("disc4", 256, 512, 2, TRUE, norm, TRUE),
        Enc("disc5", 512, 512, 1, TRUE, norm, TRUE),
        Enc("disc6", 512, 512, 1, TRUE, norm, TRUE),
        Enc("disc7", 512, cout, 1, FALSE, "batch", TRUE) >>)

Discriminator286_init(cin, cout, norm) ==
    Assemble(<<
        Enc("disc1", cin * 2, 64, 2, FALSE, "batch", FALSE),
        Enc("disc2", 64, 128, 2, TRUE, norm, TRUE),
        Enc("disc3", 128, 256, 2, TRUE, norm, TRUE),
        Enc("disc4", 256, 512, 2, TRUE, norm, TRUE),
        Enc("disc5", 512, 512, 2, TRUE, norm, TRUE),
        Enc("disc6", 512, 512, 1, TRUE, norm, TRUE),
        Enc("disc7", 512, cout, 1, FALSE, "batch", TRUE) >>)

EncoderName == <<"encoder1", "encoder2", "encoder3", "encoder4",
                 "encoder5", "encoder6", "encoder7", "encoder8">>
DecoderName == <<"decoder1", "decoder2", "decoder3", "decoder4",
                 "decoder5", "decoder6", "decoder7", "decoder8">>
DiscName == <<"disc1", "disc2", "disc3", "disc4", "disc5", "disc6", "disc7">>

NumDisc(kind) == IF kind = "Discriminator" THEN 5 ELSE 7

(***************************************************************************)
(* State.                                                                  *)
(*   ctor      the constructor call that was made and its arguments        *)
(*   status    "none" before construction, then "ready" or                 *)
(*             "NotImplementedError"                                       *)
(*   blocks    the sublayers of the constructed module, by attribute name  *)
(*   training  nn.Module.training                                          *)
(*   rng       how many masks have been drawn from the random generator    *)
(*   heap      the tensors alive; cells 1..NArgs are the caller's tensors  *)
(*   locals    the local names bound so far by a forward call in progress  *)
(*   entry     the sublayers as they were when the current call started    *)
(*   results   what each finished forward call returned or raised          *)
(***************************************************************************)
NoCtor == [kind |-> "none", in_channels |-> 0, out_channels |-> 0,
           do_norm |-> FALSE, norm |-> "none"]

Init ==
    /\ ctor = NoCtor
    /\ status = "none"
    /\ blocks = NoBlocks
    /\ training = TRUE
    /\ rng = 0
    /\ heap = <<>>
    /\ locals = <<>>
    /\ entry = NoBlocks
    /\ results = <<>>

Construct(kind, cin, cout, do_norm, norm, r) ==
    /\ status = "none"
    /\ ctor' = [kind |-> kind, in_channels |-> cin, out_channels |-> cout,
                do_norm |-> do_norm, norm |-> norm]
    /\ status' = IF r.ok THEN "ready" ELSE "NotImplementedError"
    /\ blocks' = r.blocks
    /\ entry' = r.blocks
    /\ UNCHANGED <<training, rng, heap, locals, results>>

Single(r) == [ok |-> r.ok, blocks |-> IF r.ok THEN [n \in {"self"} |-> r.block] ELSE NoBlocks]

NewEncoderBlock ==
    \E cin \in InChannels, cout \in OutChannels, stride \in Strides,
       do_norm \in BOOLEAN, norm \in Norms, do_activation \in BOOLEAN :
        /\ do_norm \/ norm = "batch"
        /\ Construct("EncoderBlock", cin, cout, do_norm, norm,
                  Single(EncoderBlock_init(cin, cout, stride, do_norm, norm, do_activation)))

NewDecoderBlock ==
    \E cin \in InChannels, cout \in OutChannels, stride \in Strides,
       do_norm \in BOOLEAN, norm \in Norms, do_activation \in BOOLEAN,
       dropout_prob \in DropoutProbs :
        /\ do_norm \/ norm = "batch"
        /\ Construct("DecoderBlock", cin, cout, do_norm, norm,
                  Single(DecoderBlock_init(cin, cout, stride, do_norm, norm,
                                           do_activation, dropout_prob)))

NewGenerator ==
    \E cin \in InChannels, cout \in OutChannels, dropout_prob \in DropoutProbs,
       norm \in Norms :
        Construct("Generator", cin, cout, TRUE, norm,
                  Generator_init(cin, cout, dropout_prob, norm))

NewDiscriminator ==
    \E cin \in InChannels, cout \in OutChannels, norm \in Norms :
        Construct("Discriminator", cin, cout, TRUE, norm,
                  Discriminator_init(cin, cout, norm))

NewDiscriminator286 ==
    \E cin \in InChannels, cout \in OutChannels, norm \in Norms :
        Construct("Discriminator286", cin, cout, TRUE, norm,
                  Discriminator286_init(cin, cout, norm))

Idle == status = "ready" /\ locals = <<>>

\* nn.Module.train() and nn.Module.eval(), inherited by every component.
Train ==
    /\ Idle /\ ~training
    /\ training' = TRUE
    /\ UNCHANGED <<ctor, status, blocks, rng, heap, locals, entry, results>>

Eval ==
    /\ Idle /\ training
    /\ training' = FALSE
    /\ UNCHANGED <<ctor, status, blocks, rng, heap, locals, entry, results>>

\* The caller creates the tensors it will pass to forward.
MakeInputs ==
    /\ Idle /\ heap = <<>>
    /\ \E n \in 1 .. MaxN, h \in InputDims(ctor.kind), w \in InputDims(ctor.kind),
          sign \in InputSigns(ctor.kind) :
        heap' = [i \in 1 .. NArgs(ctor.kind) |->
                    Tensor(<<n, ctor.in_channels, h, w>>, <<sign>>, "input", <<>>)]
    /\ UNCHANGED <<ctor, status, blocks, training, rng, locals, entry, results>>

(***************************************************************************)
(* Forward calls.  A call ends by returning a tensor or by raising; either *)
(* way the locals die and only the caller's tensors stay on the heap.      *)
(***************************************************************************)
CanCall(kind) ==
    /\ status = "ready" /\ ctor.kind = kind
    /\ heap # <<>>
    /\ Len(results) < MaxCalls

Finish(ok, hp, bl, draws, out) ==
    /\ results' = Append(results,
                         [ok |-> ok,
                          out |-> IF ok THEN [hp[out] EXCEPT !.args = <<>>] ELSE NoTensor,
                          training |-> training, before |-> entry, after |-> bl])
    /\ heap' = SubSeq(hp, 1, NArgs(ctor.kind))
    /\ blocks' = bl
    /\ entry' = bl
    /\ locals' = <<>>
    /\ rng' = draws
    /\ UNCHANGED <<ctor, status, training>>

Continue(hp, bl, draws, ref) ==
    /\ heap' = hp
    /\ blocks' = bl
    /\ locals' = Append(locals, ref)
    /\ rng' = draws
    /\ UNCHANGED <<ctor, status, training, entry, results>>

CallEncoderBlock ==
    /\ CanCall("EncoderBlock")
    /\ LET r == EncoderBlock_forward(heap, blocks["self"], "self", 1, training)
       IN  Finish(r.ok, r.heap, [blocks EXCEPT !["self"] = r.block], rng, Len(r.heap))

CallDecoderBlock ==
    /\ CanCall("DecoderBlock")
    /\ LET r == DecoderBlock_forward(heap, blocks["self"], "self", 1, training, rng + 1)
       IN  Finish(r.ok, r.heap, [blocks EXCEPT !["self"] = r.block], r.draws, Len(r.heap))

\* Generator.forward, lines encode1 .. encode8.
Generator_encode ==
    /\ CanCall("Generator")
    /\ Len(locals) < NumEncoders
    /\ LET k == Len(locals) + 1
           x == IF k = 1 THEN 1 ELSE locals[k - 1]
           name == EncoderName[k]
           r == EncoderBlock_forward(heap, blocks[name], name, x, training)
           bl == [blocks EXCEPT ![name] = r.block]
       IN  IF r.ok THEN Continue(r.heap, bl, rng, Len(r.heap))
           ELSE Finish(FALSE, r.heap, bl, rng, 0)

\* Generator.forward, lines decode1 .. decode8.
Generator_decode ==
    /\ CanCall("Generator")
    /\ Len(locals) >= NumEncoders /\ Len(locals) < 2 * NumEncoders
    /\ LET k == Len(locals) - NumEncoders + 1
           name == DecoderName[k]
           r == DecoderBlock_forward(heap, blocks[name], name, locals[Len(locals)],
                                     training, rng + 1)
           bl == [blocks EXCEPT ![name] = r.block]
           c == Cat(r.heap, Len(r.heap), locals[NumEncoders - k])
       IN  IF ~r.ok THEN Finish(FALSE, r.heap, bl, r.draws, 0)
           ELSE IF k = NumEncoders THEN Continue(r.heap, bl, r.draws, Len(r.heap))
           ELSE IF ~c.ok THEN Finish(FALSE, c.heap, bl, r.draws, 0)
           ELSE Continue(c.heap, bl, r.draws, Len(c.heap))

\* Generator.forward, lines final and return.
Generator_output ==
    /\ CanCall("Generator")
    /\ Len(locals) = 2 * NumEncoders
    /\ LET hp == Pointwise(heap, "Tanh", locals[Len(locals)])
       IN  Finish(TRUE, hp, blocks, rng, Len(hp))

\* Discriminator.forward / Discriminator286.forward, line d1.
DiscFirst(kind) ==
    /\ CanCall(kind)
    /\ locals = <<>>
    /\ LET c == Cat(heap, 1, 2)
           r == EncoderBlock_forward(c.heap, blocks["disc1"], "disc1", Len(c.heap), training)
           bl == [blocks EXCEPT !["disc1"] = r.block]
       IN  IF ~c.ok THEN Finish(FALSE, c.heap, blocks, rng, 0)
           ELSE IF ~r.ok THEN Finish(FALSE, r.heap, bl, rng, 0)
           ELSE Continue(r.heap, bl, rng, Len(r.heap))

\* lines d2 .. d(last)
DiscLayer(kind) ==
    /\ CanCall(kind)
    /\ Len(locals) >= 1 /\ Len(locals) < NumDisc(kind)
    /\ LET name == DiscName[Len(locals) + 1]
           r == EncoderBlock_forward(heap, blocks[name], name, locals[Len(locals)], training)
           bl == [blocks EXCEPT ![name] = r.block]
       IN  IF r.ok THEN Continue(r.heap, bl, rng, Len(r.heap))
           ELSE Finish(FALSE, r.heap, bl, rng, 0)

\* lines final and return
DiscOutput(kind) ==
    /\ CanCall(kind)
    /\ Len(locals) = NumDisc(kind)
    /\ LET hp == Pointwise(heap, "Sigmoid", locals[Len(locals)])
       IN  Finish(TRUE, hp, blocks, rng, Len(hp))

Discriminator_first == DiscFirst("Discriminator")
Discriminator_layer == DiscLayer("Discriminator")
Discriminator_output == DiscOutput("Discriminator")
Discriminator286_first == DiscFirst("Discriminator286")
Discriminator286_layer == DiscLayer("Discriminator286")
Discriminator286_output == DiscOutput("Discriminator286")

Next ==
    \/ NewEncoderBlock
    \/ NewDecoderBlock
    \/ NewGenerator
    \/ NewDiscriminator
    \/ NewDiscriminator286
    \/ Train
    \/ Eval
    \/ MakeInputs
    \/ CallEncoderBlock
    \/ CallDecoderBlock
    \/ Generator_encode
    \/ Generator_decode
    \/ Generator_output
    \/ Discriminator_first
    \/ Discriminator_layer
    \/ Discriminator_output
    \/ Discriminator286_first
    \/ Discriminator286_layer
    \/ Discriminator286_output

Spec == Init /\ [][Next]_vars

(***************************************************************************)
(* Properties.                                                             *)
(***************************************************************************)
Built(kind) == status = "ready" /\ ctor.kind = kind
HasInput == heap # <<>>
Arg == heap[1].shape
InProgress == locals # <<>>
ForwardStep == results' # results \/ locals' # locals

\* in_channels the decoders are declared with, decoder1 .. decoder8
DeclaredDecoderIn == <<512, 1024, 1024, 1024, 1024, 512, 256, 128>>

\* C1: on an input whose height and width are positive multiples of 256 the
\* Generator never raises and returns (N, out_channels, H, W); encoder k
\* leaves 1/2^k of the spatial size, every skip concatenation joins tensors
\* of equal spatial size, and each decoder is fed exactly its declared
\* number of channels.
C1_GeneratorShapes ==
    (Built("Generator") /\ HasInput /\ Arg[3] % Base = 0 /\ Arg[4] % Base = 0) =>
        /\ \A i \in DOMAIN results :
            /\ results[i].ok
            /\ results[i].out.shape = <<Arg[1], ctor.out_channels, Arg[3], Arg[4]>>
        /\ \A k \in 1 .. NumEncoders : k <= Len(locals) =>
            /\ heap[locals[k]].shape[3] * (2 ^ k) = Arg[3]
            /\ heap[locals[k]].shape[4] * (2 ^ k) = Arg[4]
        /\ Len(locals) >= NumEncoders =>
            /\ heap[locals[NumEncoders]].shape[2] = DeclaredDecoderIn[1]
            /\ blocks["decoder1"].in_channels = DeclaredDecoderIn[1]
        /\ \A k \in 1 .. NumEncoders - 1 : NumEncoders + k <= Len(locals) =>
            LET c == heap[locals[NumEncoders + k]]
            IN  /\ heap[c.args[1]].shape[3] = heap[c.args[2]].shape[3]
                /\ heap[c.args[1]].shape[4] = heap[c.args[2]].shape[4]
                /\ c.shape[2] = DeclaredDecoderIn[k + 1]
                /\ blocks[DecoderName[k + 1]].in_channels = DeclaredDecoderIn[k + 1]

C1_Witness ==
    /\ Built("Generator") /\ HasInput
    /\ Arg = <<2, 3, 2 * Base, Base>>
    /\ Len(results) >= 1 /\ results[1].ok
    /\ results[1].out.shape = <<2, ctor.out_channels, 2 * Base, Base>>

\* C2: whenever Generator.forward returns, the result has out_channels
\* channels and the height and width of the input.
C2_SameSpatialShape ==
    (Built("Generator") /\ HasInput) =>
        \A i \in DOMAIN results : results[i].ok =>
            results[i].out.shape = <<Arg[1], ctor.out_channels, Arg[3], Arg[4]>>

\* C3: Discriminator(3, 1) on two (N, 3, 256, 256) tensors returns
\* (N, 1, 30, 30).
C3_DiscriminatorShape ==
    (Built("Discriminator") /\ ctor.in_channels = 3 /\ ctor.out_channels = 1
        /\ HasInput /\ Arg[3] = 256 /\ Arg[4] = 256) =>
        /\ heap[2].shape = Arg
        /\ \A i \in DOMAIN results :
            results[i].ok /\ results[i].out.shape = <<Arg[1], 1, 30, 30>>

C3_Witness ==
    /\ Built("Discriminator") /\ HasInput /\ Arg = <<2, 3, 256, 256>>
    /\ Len(results) >= 1 /\ results[1].out.shape = <<2, 1, 30, 30>>

C5_UnknownNormRaises ==
    (ctor.kind # "none" /\ ctor.do_norm /\ ctor.norm \notin {"batch", "instance"}) =>
        /\ status = "NotImplementedError"
        /\ blocks = NoBlocks
        /\ heap = <<>> /\ locals = <<>> /\ results = <<>>

C5_Witness ==
    /\ ctor.kind = "Generator" /\ ctor.norm = "unsupported"
    /\ status = "NotImplementedError"

\* C6: decoder1 is fed the output of encoder8 alone; the input of decoder
\* k+1 is the concatenation of the output of decoder k followed by the
\* output of encoder 8-k, with the channel widths of those two outputs in
\* that order, and an encoder output enters no other stage.
C6_SkipWiring ==
    (Built("Generator") /\ InProgress) =>
        \A k \in 1 .. NumEncoders : NumEncoders + k <= Len(locals) =>
            LET t == heap[locals[NumEncoders + k]]
                d == IF k < NumEncoders THEN heap[t.args[1]] ELSE t
                fed == heap[d.args[1]]
            IN  /\ d.by = DecoderName[k]
                /\ Len(d.args) = 1
                /\ d.args[1] = locals[NumEncoders + k - 1]
                /\ k = 1 => fed.by = "encoder8" /\ fed.args = <<locals[NumEncoders - 1]>>
                /\ k > 1 => fed.by = "cat"
                /\ k < NumEncoders =>
                    /\ t.by = "cat"
                    /\ Len(t.args) = 2
                    /\ t.args[2] = locals[NumEncoders - k]
                    /\ heap[t.args[2]].by = EncoderName[NumEncoders - k]
                    /\ heap[t.args[1]].shape[2] = blocks[DecoderName[k]].out_channels
                    /\ heap[t.args[2]].shape[2] = blocks[EncoderName[NumEncoders - k]].out_channels
                    /\ t.shape[2] = heap[t.args[1]].shape[2] + heap[t.args[2]].shape[2]
                    /\ t.val = heap[t.args[1]].val \o heap[t.args[2]].val \o <<"cat">>

C6_Witness ==
    /\ Built("Generator") /\ Len(locals) = 2 * NumEncoders
    /\ heap[locals[2 * NumEncoders - 1]].args[2] = locals[1]
    /\ heap[locals[2 * NumEncoders - 1]].shape[2] = 128

\* C7: in evaluation mode two successive forward calls on the same input
\* tensor return equal outputs and leave parameters and running statistics
\* as they were.
C7_EvalIdempotent ==
    \A i \in DOMAIN results : \A j \in DOMAIN results :
        (j = i + 1 /\ ~results[i].training /\ ~results[j].training) =>
            /\ results[i].ok = results[j].ok
            /\ results[i].out = results[j].out
            /\ results[i].before = results[i].after
            /\ results[j].before = results[j].after

\* C8: a step of a forward call changes nothing but the running statistics
\* of normalization sublayers; the caller's tensors keep their values.
C8_ForwardFrame ==
    [][ForwardStep =>
        /\ ctor' = ctor /\ status' = status /\ training' = training
        /\ \A i \in 1 .. NArgs(ctor.kind) : heap'[i] = heap[i]
        /\ \A n \in DOMAIN blocks :
            [blocks'[n] EXCEPT !.num_batches_tracked = 0]
                = [blocks[n] EXCEPT !.num_batches_tracked = 0]]_vars

C10_EncoderOutputHeld ==
    [][(Built("Generator") /\ locals' # <<>>) =>
        \A k \in 1 .. NumEncoders - 1 :
            (k <= Len(locals) /\ Len(locals) < 2 * NumEncoders - k) =>
                heap'[locals[k]].val = heap[locals[k]].val]_vars

====
